---- MODULE Spec2Model ----
(***************************************************************************)
(* A model of the devstack orchestration core: the Registry metaclass      *)
(* (devstack/layer.py) and the DevStack singleton (devstack/devstack.py):  *)
(* registration of Layer / Mode / Prop classes, the dependency resolver    *)
(* __order, prompt_toggles with load_config / update_config_file, the      *)
(* stack status table and the deploy loop.                                 *)
(*                                                                         *)
(* Python dicts are functions with a varying DOMAIN; the unicode symbols   *)
(* of the table are written with one ASCII character each ("o" pending,    *)
(* "v" tick, "x" cross; "+", "-", "~" stand for the one-codepoint emoji of *)
(* the status texts), so that the widths str.format pads to are kept.      *)
(***************************************************************************)
EXTENDS Integers, Sequences, FiniteSets, TLC

(* ------------------------------ bounds -------------------------------- *)

\* Largest number of names in one declared depends_on.
MaxDeps == 2
\* Number of distinct names the stack script of specification Spec registers.
MaxClasses == 3
\* Number of names registered by a stack of specification SpecRerun.
MaxStack == 2
\* Most data rows of the table at which the script calls deploy() once more.
MaxRows == 4

\* Class names of the layers whose graphs specification SpecResolve draws.
GraphLayers == {"A", "B", "C"}
\* Class names of the Layer classes the stack script of Spec may define.
ScriptLayers == {"A", "B"}
\* A dependency name that is never the name of a registered layer.
UnknownNames == {"Z"}
\* Values of the name attribute of the Mode classes of the stack script.
ModeNames == {"M1", "M2"}
\* Values of the name attribute of the Prop classes of the stack script.
PropNames == {"P"}
\* def deploy(self, loglevel="INFO", name='DEFAULT').
DefaultName == "DEFAULT"
\* The name argument of deploy(): the default and another one.
StackNames == {DefaultName, "demo"}
\* Return codes of a layer's deploy(): negative, zero, positive.
RetCodes == {-1, 0, 5}
\* Attributes a Layer class body may define.
LayerAttrs == {"deploy", "destroy", "shared_config", "prop_init", "depends_on"}
\* Attributes a Mode class body may define.
ModeAttrs == {"default", "name"}
\* Attributes a Prop class body may define.
PropAttrs == {"name", "values"}

(* ------------------------- Python data helpers ------------------------ *)

\* The None of depends_on = (None, ).
None == "None"

\* {}: the empty dict.
EmptyDict == [k \in {} |-> FALSE]

\* d[k] = v on a dict.
DictSet(d, k, v) == [x \in DOMAIN d \cup {k} |-> IF x = k THEN v ELSE d[x]]

\* The elements of a list.
Range(s) == {s[j] : j \in 1..Len(s)}

\* The lists that hold every element of S once: the orders in which a
\* Python set may be iterated.
Orderings(S) ==
    {s \in [1..Cardinality(S) -> S] : \A a, b \in 1..Cardinality(S) : s[a] = s[b] => a = b}

\* The sub-lists of s, elements kept in the order of s.
RECURSIVE SubLists(_)
SubLists(s) ==
    IF s = <<>> THEN {<<>>}
    ELSE LET rest == SubLists(Tail(s))
         IN  rest \cup {<<Head(s)>> \o t : t \in rest}

\* list.remove(x): the list without its first x.
RECURSIVE ListRemove(_, _)
ListRemove(s, x) ==
    IF s = <<>> THEN <<>>
    ELSE IF Head(s) = x THEN Tail(s)
    ELSE <<Head(s)>> \o ListRemove(Tail(s), x)

RECURSIVE Spaces(_)
Spaces(n) == IF n <= 0 THEN "" ELSE " " \o Spaces(n - 1)

\* f'{s:^w}': s centred in a field of width w.
Center(s, w) ==
    IF Len(s) >= w THEN s
    ELSE LET pad == w - Len(s)
         IN  Spaces(pad \div 2) \o s \o Spaces(pad - (pad \div 2))

SymbolWidth == 3
StatusWidth == 50

(* ------------------------------- state --------------------------------- *)

VARIABLES
    registered_layers,      \* class name -> attributes of the layer object
    registered_modes,       \* list of [name, default], in dict key order
    layer_dependency_graph, \* class name -> declared dependency names
    stack_status,           \* name -> [symbol, key, status]
    stack,                  \* the data rows of the table, below the header row
    stack_mode_status,      \* mode name -> BOOLEAN
    stack_toggle_status,    \* name -> BOOLEAN
    shared_config,          \* key -> where the value came from
    files,                  \* stack name -> the file .<name>.json
    name,                   \* self.name
    pc,                     \* where the process is
    d,                      \* __order: the working graph
    r,                      \* __order: the output list
    order,                  \* deploy: the resolved order
    choices,                \* prompt_toggles: layer_list + mode_list
    enabled,                \* deploy: answers['enabled']
    i,                      \* index of the for loop in progress
    calls,                  \* the layer operations invoked in this run, in order
    rets,                   \* layer -> the code its deploy() returned in this run
    exit_code,              \* the argument of sys.exit, 1 for an uncaught exception
    error,                  \* the exception that ended the process
    exit_at,                \* where the process was when it ended
    saved,                  \* stack name -> the maps update_config_file last wrote
    defined                 \* the class statement the stack script last executed

vars == <<registered_layers, registered_modes, layer_dependency_graph, stack_status,
          stack, stack_mode_status, stack_toggle_status, shared_config, files, name,
          pc, d, r, order, choices, enabled, i, calls, rets, exit_code, error,
          exit_at, saved, defined>>

\* The file .<name>.json before any run wrote it.
NoFile == [exists |-> FALSE, stack_toggle_status |-> {}, stack_mode_status |-> {}]

\* DevStack.__init__, at `devstack = DevStack()`: all but what registration fills.
\* No class statement: none executed yet, or the script is past them.
NoClass == [kind |-> "", name |-> "", missing |-> {}]

\* Nothing written yet under a stack name.
NoSave == [stack_toggle_status |-> EmptyDict, stack_mode_status |-> EmptyDict]

FreshObject ==
    /\ stack_status = EmptyDict
    /\ stack = <<>>
    /\ stack_toggle_status = EmptyDict
    /\ shared_config = EmptyDict
    /\ name = ""
    /\ pc = "register"
    /\ d = EmptyDict
    /\ r = <<>>
    /\ order = <<>>
    /\ choices = <<>>
    /\ enabled = <<>>
    /\ i = 0
    /\ calls = <<>>
    /\ rets = EmptyDict
    /\ exit_code = 0
    /\ error = ""
    /\ exit_at = ""
    /\ defined = NoClass

\* The process at the start of the stack script: nothing is registered.
FreshProcess ==
    /\ registered_layers = EmptyDict
    /\ layer_dependency_graph = EmptyDict
    /\ registered_modes = <<>>
    /\ stack_mode_status = EmptyDict
    /\ FreshObject

Init ==
    /\ FreshProcess
    /\ files = [n \in StackNames |-> NoFile]
    /\ saved = [n \in StackNames |-> NoSave]

\* sys.exit(code), or an uncaught exception (exit status 1): the process ends.
Exit(code, exc) ==
    /\ pc' = "exit"
    /\ exit_code' = code
    /\ error' = exc
    /\ exit_at' = pc

(* ---------------------------- registration ---------------------------- *)

\* The keys of the registered_modes dict, in order.
ModeKeys(rm) == [j \in 1..Len(rm) |-> rm[j].name]

\* registered_modes[nm] = mode_object: an existing key keeps its place.
ModesSet(rm, nm, dflt) ==
    IF nm \in Range(ModeKeys(rm))
    THEN [j \in 1..Len(rm) |-> IF rm[j].name = nm THEN [name |-> nm, default |-> dflt] ELSE rm[j]]
    ELSE Append(rm, [name |-> nm, default |-> dflt])

required_methods(kind) ==
    CASE kind = "Layer" -> {"deploy", "destroy", "shared_config"}
      [] kind = "Mode" -> {"default"}
      [] kind = "Prop" -> {"name", "values"}

HasRequiredAny(kind, attributedict) == required_methods(kind) \cap attributedict # {}

\* Registry.__new__: all(key in attributedict.keys() for key in required_methods).
HasRequired(kind, attributedict) == required_methods(kind) \subseteq attributedict

\* A class statement, as Registry.__new__ sees it: the base class, the name the
\* class registers under, and the required operations its body lacks.
ClassStatement(kind, nm, attrs) ==
    [kind |-> kind, name |-> nm, missing |-> required_methods(kind) \ attrs]

\* The declared dependency sets of the model.
DepSets(names) == {s \in SUBSET names : Cardinality(s) <= MaxDeps}

\* The number of names registered so far.
Registered ==
    Cardinality(DOMAIN registered_layers) + Len(registered_modes)
        + Cardinality(DOMAIN shared_config \cap PropNames)

\* May the stack script define a class registered under nm?
MayRegister(known, nm) == nm \in known \/ Registered < MaxClasses

\* DevStack.add_layer.
add_layer(clsname, attrs, depends_on) ==
    /\ registered_layers' = DictSet(registered_layers, clsname, attrs)
    /\ layer_dependency_graph' =
          DictSet(layer_dependency_graph, clsname,
                  IF "depends_on" \in attrs THEN depends_on ELSE {None})

\* class clsname(Layer): ... with the attributes attrs in its body.
RegisterLayer(clsname, attrs, depends_on) ==
    /\ pc = "register"
    /\ MayRegister(DOMAIN registered_layers, clsname)
    /\ defined' = ClassStatement("Layer", clsname, attrs)
    /\ IF HasRequired("Layer", attrs)
       THEN /\ add_layer(clsname, attrs, depends_on)
            /\ UNCHANGED <<pc, exit_code, error, exit_at>>
       ELSE /\ Exit(-2, "SystemExit")
            /\ UNCHANGED <<registered_layers, layer_dependency_graph>>
    /\ UNCHANGED <<registered_modes, stack_status, stack, stack_mode_status,
                   stack_toggle_status, shared_config, files, saved, name, d, r,
                   order, choices, enabled, i, calls, rets>>

\* class ...(Mode): ...; DevStack.add_mode reads mode_object.name and .default.
RegisterMode(attrs, nm, dflt) ==
    /\ pc = "register"
    /\ MayRegister(Range(ModeKeys(registered_modes)), nm)
    /\ defined' = ClassStatement("Mode", nm, attrs)
    /\ IF ~HasRequired("Mode", attrs)
       THEN /\ Exit(-2, "SystemExit")
            /\ UNCHANGED <<registered_modes, stack_mode_status>>
       ELSE IF "name" \notin attrs
       THEN /\ Exit(1, "AttributeError")
            /\ UNCHANGED <<registered_modes, stack_mode_status>>
       ELSE /\ registered_modes' = ModesSet(registered_modes, nm, dflt)
            /\ stack_mode_status' = DictSet(stack_mode_status, nm, dflt)
            /\ UNCHANGED <<pc, exit_code, error, exit_at>>
    /\ UNCHANGED <<registered_layers, layer_dependency_graph, stack_status, stack,
                   stack_toggle_status, shared_config, files, saved, name, d, r,
                   order, choices, enabled, i, calls, rets>>

\* class ...(Prop): ...; DevStack.add_prop stores prop_object.values.
RegisterProp(attrs, nm) ==
    /\ pc = "register"
    /\ MayRegister(DOMAIN shared_config, nm)
    /\ defined' = ClassStatement("Prop", nm, attrs)
    /\ IF HasRequired("Prop", attrs)
       THEN /\ shared_config' = DictSet(shared_config, nm, "prop")
            /\ UNCHANGED <<pc, exit_code, error, exit_at>>
       ELSE /\ Exit(-2, "SystemExit")
            /\ UNCHANGED shared_config
    /\ UNCHANGED <<registered_layers, registered_modes, layer_dependency_graph,
                   stack_status, stack, stack_mode_status, stack_toggle_status, files, saved,
                   name, d, r, order, choices, enabled, i, calls, rets>>

(* ---------------------------- stack status ----------------------------- *)

\* The symbols and status texts the orchestrator writes.
PendingSymbol == "o"
ProgressSymbol == "..."
TickSymbol == "v"
CrossSymbol == "x"
InitialStatus == "-"
PendingStatus == "Pending"
DeployingStatus == " ~ Deploying Layer"
UpStatus == " + Layer is up."
FailedStatus == " - Failed"
CompleteStatus == "Complete"
\* The status text the HelloWorld layer writes from inside its deploy().
LayerStatus == "From deploy() method in HelloWorld"

\* The entry __order creates for a resolved name.
PendingEntry(layer) ==
    DictSet(DictSet(DictSet(EmptyDict, "symbol", PendingSymbol), "key", layer),
            "status", InitialStatus)

\* [element for element in self.stack_status[layer].values()].
RowOf(entry) == <<entry["symbol"], entry["key"], entry["status"]>>

\* update_stack_status, on stack_status: symbol and status are None when not given.
StatusAfter(ss, layer, symbol, status) ==
    LET e0 == IF layer \in DOMAIN ss THEN ss[layer] ELSE EmptyDict
        e1 == IF symbol # None THEN DictSet(e0, "symbol", Center(symbol, SymbolWidth)) ELSE e0
        e2 == IF status # None THEN DictSet(e1, "status", Center(status, StatusWidth)) ELSE e1
    IN  DictSet(ss, layer, e2)

StackAfterMovedLast(st, ss, layer) ==
    LET written == [idx \in 1..Len(st) |->
                       IF st[idx][2] = layer
                       THEN <<ss[layer]["symbol"], layer, ss[layer]["status"]>>
                                \o SubSeq(st[idx], 4, Len(st[idx]))
                       ELSE st[idx]]
        IsOther(row) == row[2] # layer
        IsLayer(row) == row[2] = layer
    IN  SelectSeq(written, IsOther) \o SelectSeq(written, IsLayer)

\* update_stack_status, on the table: the rows whose name column is layer.
StackAfter(st, ss, layer) ==
    [idx \in 1..Len(st) |->
        IF st[idx][2] = layer
        THEN <<ss[layer]["symbol"], layer, ss[layer]["status"]>> \o SubSeq(st[idx], 4, Len(st[idx]))
        ELSE st[idx]]

\* self.update_stack_status(layer, symbol=..., status=...).
update_stack_status(layer, symbol, status) ==
    /\ stack_status' = StatusAfter(stack_status, layer, symbol, status)
    /\ stack' = StackAfter(stack, StatusAfter(stack_status, layer, symbol, status), layer)

(* ------------------------------ __order -------------------------------- *)

\* d = dict((k, set(arg[k])) for k in arg).
WorkingGraph(arg) == [k \in DOMAIN arg |-> arg[k]]

ReadyOrSelfDependent(g) ==
    (UNION {g[k] : k \in DOMAIN g} \ DOMAIN g) \cup {k \in DOMAIN g : g[k] \subseteq {k}}

\* t: the values that are no keys, and the keys without value.
Ready(g) ==
    (UNION {g[k] : k \in DOMAIN g} \ DOMAIN g) \cup {k \in DOMAIN g : g[k] = {}}

StrikeKeepingKeys(g, t) == [k \in DOMAIN g |-> g[k] \ t]

\* d = dict(((k, v - t) for k, v in d.items() if v)).
Strike(g, t) == [k \in {x \in DOMAIN g : g[x] # {}} |-> g[k] \ t]

AppendedAll(t) == Orderings(t)

\* for layer in t: if layer is not None: ..., in an order of the set.
Appended(t) == Orderings(t \ {None})

ExtendedInFront(out, app) == app \o out

\* r.append(layer), for the layers of one iteration.
Extended(out, app) == out \o app

\* The lists the while loop of __order can end with, from working graph g and
\* output out, over the iteration orders of t; none when it calls sys.exit(1).
RECURSIVE OrdersFrom(_, _)
OrdersFrom(g, out) ==
    IF DOMAIN g = {} THEN {out}
    ELSE IF Ready(g) = {} THEN {}
    ELSE UNION {OrdersFrom(Strike(g, Ready(g)), Extended(out, app)) :
                    app \in Appended(Ready(g))}

\* The lists resolve() can return for the dependency graph arg.
ResolveOrders(arg) == OrdersFrom(WorkingGraph(arg), <<>>)

\* devstack.deploy(name=nm), at the end of the stack script: deploy() up to the
\* call of resolve(), and __order up to its while loop.
DeployCall(nm) ==
    /\ pc = "register"
    /\ name' = nm
    /\ defined' = NoClass
    /\ d' = WorkingGraph(layer_dependency_graph)
    /\ r' = <<>>
    /\ pc' = "resolve"
    /\ UNCHANGED <<registered_layers, registered_modes, layer_dependency_graph,
                   stack_status, stack, stack_mode_status, stack_toggle_status,
                   shared_config, files, saved, order, choices, enabled, i, calls, rets,
                   exit_code, error, exit_at>>

\* One iteration of `while d` that finds a ready name.
ResolveStep ==
    /\ pc = "resolve"
    /\ DOMAIN d # {}
    /\ Ready(d) # {}
    /\ \E app \in Appended(Ready(d)) : r' = Extended(r, app)
    /\ d' = Strike(d, Ready(d))
    /\ UNCHANGED <<registered_layers, registered_modes, layer_dependency_graph,
                   stack_status, stack, stack_mode_status, stack_toggle_status,
                   shared_config, files, saved, name, defined, pc, order, choices, enabled, i, calls,
                   rets, exit_code, error, exit_at>>

\* An iteration that finds none: print("Dependency resolution failed."); sys.exit(1).
ResolveFail ==
    /\ pc = "resolve"
    /\ DOMAIN d # {}
    /\ Ready(d) = {}
    /\ Exit(1, "SystemExit")
    /\ UNCHANGED <<registered_layers, registered_modes, layer_dependency_graph,
                   stack_status, stack, stack_mode_status, stack_toggle_status,
                   shared_config, files, saved, name, defined, d, r, order, choices, enabled, i, calls,
                   rets>>

\* The entries and rows __order creates for r, in order.
RECURSIVE StatusWith(_, _)
StatusWith(ss, out) ==
    IF out = <<>> THEN ss
    ELSE StatusWith(DictSet(ss, Head(out), PendingEntry(Head(out))), Tail(out))

RowsOf(out) == [j \in 1..Len(out) |-> RowOf(PendingEntry(out[j]))]

\* The end of the while loop: the status entries, the rows, return r.
ResolveReturn ==
    /\ pc = "resolve"
    /\ DOMAIN d = {}
    /\ stack_status' = StatusWith(stack_status, r)
    /\ stack' = stack \o RowsOf(r)
    /\ order' = r
    /\ pc' = "shared_config"
    /\ i' = 1
    /\ UNCHANGED <<registered_layers, registered_modes, layer_dependency_graph,
                   stack_mode_status, stack_toggle_status, shared_config, files, saved, name, defined,
                   d, r, choices, enabled, calls, rets, exit_code, error, exit_at>>

(* ------------------------- the persisted file ------------------------- *)

\* json.dump of a dict of booleans: its members, the values as JSON literals.
JsonDump(m) == {<<k, IF m[k] THEN "true" ELSE "false">> : k \in DOMAIN m}

\* json.load of the members of an object: a dict again.
JsonLoad(members) ==
    [k \in {p[1] : p \in members} |-> (CHOOSE p \in members : p[1] = k)[2] = "true"]

\* The path update_config_file and load_config open: f'.{self.name}.json'.
ConfigPath(nm) == nm

\* update_config_file: the file, overwritten with the two maps.
Written(fs, nm, toggles, modes) ==
    [fs EXCEPT ![ConfigPath(nm)] =
        [exists |-> TRUE,
         stack_toggle_status |-> JsonDump(toggles),
         stack_mode_status |-> JsonDump(modes)]]

\* load_config: the toggle map it leaves in memory (FileNotFoundError: the old one).
LoadedToggles(fs, nm, toggles) ==
    IF fs[ConfigPath(nm)].exists
    THEN JsonLoad(fs[ConfigPath(nm)].stack_toggle_status)
    ELSE toggles

LoadedModesMerged(fs, nm, modes) ==
    IF fs[ConfigPath(nm)].exists
    THEN LET loaded == JsonLoad(fs[ConfigPath(nm)].stack_mode_status)
         IN  [k \in DOMAIN loaded \cup DOMAIN modes |->
                 IF k \in DOMAIN loaded THEN loaded[k] ELSE modes[k]]
    ELSE modes

\* load_config: the mode map it leaves in memory.
LoadedModes(fs, nm, modes) ==
    IF fs[ConfigPath(nm)].exists
    THEN JsonLoad(fs[ConfigPath(nm)].stack_mode_status)
    ELSE modes

(* --------------------------- prompt_toggles --------------------------- *)

\* for k in keys: m[k] = v, in any order of keys (the writes are to distinct keys).
SetAll(m, keys, v) == [x \in DOMAIN m \cup keys |-> IF x \in keys THEN v ELSE m[x]]

TogglesAtPromptKept(fs, nm, toggles, layers) == LoadedToggles(fs, nm, toggles)

\* if not self.load_config(): every registered layer's toggle becomes False.
TogglesAtPrompt(fs, nm, toggles, layers) ==
    IF fs[ConfigPath(nm)].exists
    THEN LoadedToggles(fs, nm, toggles)
    ELSE SetAll(toggles, layers, FALSE)

\* layer_list + mode_list: the names presented, with their pre-checked flag.
ChoiceList(ordered, modekeys, toggles, modes) ==
    [j \in 1..Len(ordered) |-> [name |-> ordered[j], checked |-> toggles[ordered[j]]]]
        \o [j \in 1..Len(modekeys) |-> [name |-> modekeys[j], checked |-> modes[modekeys[j]]]]

\* prompt_toggles up to the call of prompt(): load_config, the defaults, the lists.
PromptBegin ==
    /\ pc = "prompt"
    /\ LET toggles == TogglesAtPrompt(files, name, stack_toggle_status,
                                      DOMAIN registered_layers)
           modes == LoadedModes(files, name, stack_mode_status)
           modekeys == ModeKeys(registered_modes)
       IN  /\ stack_toggle_status' = toggles
           /\ stack_mode_status' = modes
           /\ IF /\ Range(order) \subseteq DOMAIN toggles
                 /\ Range(modekeys) \subseteq DOMAIN modes
              THEN /\ choices' = ChoiceList(order, modekeys, toggles, modes)
                   /\ pc' = "answer"
                   /\ UNCHANGED <<exit_code, error, exit_at>>
              ELSE /\ Exit(1, "KeyError")
                   /\ UNCHANGED choices
    /\ UNCHANGED <<registered_layers, registered_modes, layer_dependency_graph,
                   stack_status, stack, shared_config, files, saved, name, defined, d, r, order,
                   enabled, i, calls, rets>>

\* The lists prompt() may return for the choices presented: the names left checked.
AnswerLists(presented) == SubLists([j \in 1..Len(presented) |-> presented[j].name])

\* for option in enabled_options: if option in self.registered_modes.keys(): ...
\* with enabled_options.remove(option) inside the loop over that same list.
RECURSIVE ModeLoop(_, _, _, _)
ModeLoop(options, idx, modes, modekeys) ==
    IF idx > Len(options) THEN [enabled_options |-> options, stack_mode_status |-> modes]
    ELSE IF options[idx] \in modekeys
    THEN ModeLoop(ListRemove(options, options[idx]), idx + 1,
                  DictSet(modes, options[idx], TRUE), modekeys)
    ELSE ModeLoop(options, idx + 1, modes, modekeys)

\* for layer in enabled_options: update_stack_status(layer, symbol, status).
RECURSIVE StatusAll(_, _, _, _)
StatusAll(ss, options, symbol, status) ==
    IF options = <<>> THEN ss
    ELSE StatusAll(StatusAfter(ss, Head(options), symbol, status), Tail(options),
                   symbol, status)

RECURSIVE StackAll(_, _, _)
StackAll(st, ss, options) ==
    IF options = <<>> THEN st
    ELSE StackAll(StackAfter(st, ss, Head(options)), ss, Tail(options))

TogglesAfterNoReset(toggles, ordered, options) == SetAll(toggles, Range(options), TRUE)

\* The toggle map after the two loops over layer_ordered and enabled_options.
TogglesAfter(toggles, ordered, options) ==
    SetAll(SetAll(toggles, Range(ordered), FALSE), Range(options), TRUE)

\* prompt_toggles from the return of prompt() on, and show_stack.
PromptAnswer(answers) ==
    /\ pc = "answer"
    /\ LET looped == ModeLoop(answers, 1, stack_mode_status,
                              Range(ModeKeys(registered_modes)))
           options == looped.enabled_options
           toggles == TogglesAfter(stack_toggle_status, order, options)
           status == StatusAll(stack_status, options, PendingSymbol, PendingStatus)
       IN  /\ stack_mode_status' = looped.stack_mode_status
           /\ stack_toggle_status' = toggles
           /\ stack_status' = status
           /\ stack' = StackAll(stack, status, options)
           /\ files' = Written(files, name, toggles, looped.stack_mode_status)
           /\ saved' = [saved EXCEPT ![name] =
                            [stack_toggle_status |-> toggles,
                             stack_mode_status |-> looped.stack_mode_status]]
    /\ enabled' = answers
    /\ pc' = "deploy"
    /\ i' = 1
    /\ UNCHANGED <<registered_layers, registered_modes, layer_dependency_graph,
                   shared_config, name, defined, d, r, order, choices, calls, rets, exit_code,
                   error, exit_at>>

(* ------------------------------- deploy -------------------------------- *)

\* The loop over order at pc has run through: on to the next statement.
LoopEnd(at, next) ==
    /\ pc = at
    /\ i > Len(order)
    /\ pc' = next
    /\ i' = 1
    /\ UNCHANGED <<registered_layers, registered_modes, layer_dependency_graph,
                   stack_status, stack, stack_mode_status, stack_toggle_status,
                   shared_config, files, saved, name, defined, d, r, order, choices, enabled, calls,
                   rets, exit_code, error, exit_at>>

SharedConfigStepInterleaved ==
    /\ pc = "shared_config"
    /\ i <= Len(order)
    /\ IF order[i] \in DOMAIN registered_layers
       THEN /\ calls' = calls \o <<<<"shared_config", order[i]>>, <<"prop_init", order[i]>>>>
            /\ shared_config' = DictSet(shared_config, order[i], "layer")
            /\ i' = i + 1
            /\ UNCHANGED <<pc, exit_code, error, exit_at>>
       ELSE /\ Exit(1, "KeyError")
            /\ UNCHANGED <<calls, shared_config, i>>
    /\ UNCHANGED <<registered_layers, registered_modes, layer_dependency_graph,
                   stack_status, stack, stack_mode_status, stack_toggle_status, files, saved,
                   name, defined, d, r, order, choices, enabled, rets>>

\* self.shared_config[layer] = self.registered_layers[layer].shared_config().
SharedConfigStep ==
    /\ pc = "shared_config"
    /\ i <= Len(order)
    /\ IF order[i] \in DOMAIN registered_layers
       THEN /\ calls' = Append(calls, <<"shared_config", order[i]>>)
            /\ shared_config' = DictSet(shared_config, order[i], "layer")
            /\ i' = i + 1
            /\ UNCHANGED <<pc, exit_code, error, exit_at>>
       ELSE /\ Exit(1, "KeyError")
            /\ UNCHANGED <<calls, shared_config, i>>
    /\ UNCHANGED <<registered_layers, registered_modes, layer_dependency_graph,
                   stack_status, stack, stack_mode_status, stack_toggle_status, files, saved,
                   name, defined, d, r, order, choices, enabled, rets>>

SharedConfigEnd == LoopEnd("shared_config", "prop_init")

\* self.registered_layers[layer].prop_init().
PropInitStep ==
    /\ pc = "prop_init"
    /\ i <= Len(order)
    /\ IF "prop_init" \in registered_layers[order[i]]
       THEN /\ calls' = Append(calls, <<"prop_init", order[i]>>)
            /\ i' = i + 1
            /\ UNCHANGED <<pc, exit_code, error, exit_at>>
       ELSE /\ Exit(1, "AttributeError")
            /\ UNCHANGED <<calls, i>>
    /\ UNCHANGED <<registered_layers, registered_modes, layer_dependency_graph,
                   stack_status, stack, stack_mode_status, stack_toggle_status,
                   shared_config, files, saved, name, defined, d, r, order, choices, enabled, rets>>

PropInitEnd == LoopEnd("prop_init", "prompt")

\* if layer is not None and layer in enabled.
IsEnabled(layer, answers) == layer # None /\ layer \in Range(answers)

DeployStepUnmarked ==
    /\ pc = "deploy"
    /\ i <= Len(order)
    /\ IF IsEnabled(order[i], enabled)
       THEN /\ calls' = Append(calls, <<"deploy", order[i]>>)
            /\ pc' = "deploying"
            /\ UNCHANGED <<stack_status, stack, i>>
       ELSE /\ i' = i + 1
            /\ UNCHANGED <<stack_status, stack, calls, pc>>
    /\ UNCHANGED <<registered_layers, registered_modes, layer_dependency_graph,
                   stack_mode_status, stack_toggle_status, shared_config, files, saved, name, defined,
                   d, r, order, choices, enabled, rets, exit_code, error, exit_at>>

\* An iteration of the last loop, up to the call of the layer's deploy().
DeployStep ==
    /\ pc = "deploy"
    /\ i <= Len(order)
    /\ IF IsEnabled(order[i], enabled)
       THEN /\ update_stack_status(order[i], ProgressSymbol, DeployingStatus)
            /\ calls' = Append(calls, <<"deploy", order[i]>>)
            /\ pc' = "deploying"
            /\ UNCHANGED i
       ELSE /\ i' = i + 1
            /\ UNCHANGED <<stack_status, stack, calls, pc>>
    /\ UNCHANGED <<registered_layers, registered_modes, layer_dependency_graph,
                   stack_mode_status, stack_toggle_status, shared_config, files, saved, name, defined,
                   d, r, order, choices, enabled, rets, exit_code, error, exit_at>>

\* The layer's deploy() calls update_stack_status(its class name, status=...),
\* as HelloWorld.deploy does, before it runs its command.
LayerStatusUpdate ==
    /\ pc = "deploying"
    /\ update_stack_status(order[i], None, LayerStatus)
    /\ UNCHANGED <<registered_layers, registered_modes, layer_dependency_graph,
                   stack_mode_status, stack_toggle_status, shared_config, files, saved,
                   name, defined, pc, d, r, order, choices, enabled, i, calls, rets,
                   exit_code, error, exit_at>>

\* The symbol and the status text for a return code.
OutcomeSymbol(ret_code) ==
    IF ret_code = 0 THEN TickSymbol ELSE IF ret_code < 0 THEN CrossSymbol ELSE TickSymbol

OutcomeStatusPositiveUp(ret_code) == IF ret_code < 0 THEN FailedStatus ELSE UpStatus

OutcomeStatus(ret_code) ==
    IF ret_code = 0 THEN UpStatus ELSE IF ret_code < 0 THEN FailedStatus ELSE CompleteStatus

DeployReturnFailFast(ret_code) ==
    /\ pc = "deploying"
    /\ update_stack_status(order[i], OutcomeSymbol(ret_code), OutcomeStatus(ret_code))
    /\ rets' = DictSet(rets, order[i], ret_code)
    /\ IF ret_code < 0
       THEN /\ Exit(1, "SystemExit")
            /\ UNCHANGED i
       ELSE /\ i' = i + 1
            /\ pc' = "deploy"
            /\ UNCHANGED <<exit_code, error, exit_at>>
    /\ UNCHANGED <<registered_layers, registered_modes, layer_dependency_graph,
                   stack_mode_status, stack_toggle_status, shared_config, files, saved,
                   name, defined, d, r, order, choices, enabled, calls>>

\* deploy() of the layer returns ret_code: the rest of the iteration.
DeployReturn(ret_code) ==
    /\ pc = "deploying"
    /\ update_stack_status(order[i], OutcomeSymbol(ret_code), OutcomeStatus(ret_code))
    /\ rets' = DictSet(rets, order[i], ret_code)
    /\ i' = i + 1
    /\ pc' = "deploy"
    /\ UNCHANGED <<registered_layers, registered_modes, layer_dependency_graph,
                   stack_mode_status, stack_toggle_status, shared_config, files, saved, name, defined,
                   d, r, order, choices, enabled, calls, exit_code, error, exit_at>>

\* Layer.run_cmd with continue_on_error=False, the command failing:
\* sys.exit(process.returncode) inside the layer's deploy().
RunCmdExit(returncode) ==
    /\ pc = "deploying"
    /\ returncode # 0
    /\ Exit(returncode, "SystemExit")
    /\ UNCHANGED <<registered_layers, registered_modes, layer_dependency_graph,
                   stack_status, stack, stack_mode_status, stack_toggle_status,
                   shared_config, files, saved, name, defined, d, r, order, choices, enabled, i, calls,
                   rets>>

\* deploy() returns to its caller.
DeployEnd == LoopEnd("deploy", "done")

(* --------------------------- specifications --------------------------- *)

\* The bodies of the Layer classes of the stack script: the required operations
\* with or without prop_init and depends_on, every attribute but one required
\* operation, and the empty body.
LayerBodies ==
    {required_methods("Layer") \cup optional : optional \in SUBSET {"prop_init", "depends_on"}}
        \cup {LayerAttrs \ {a} : a \in required_methods("Layer")}
        \cup {{}}

\* The class definitions of the stack script.
Register ==
    \/ \E clsname \in ScriptLayers, attrs \in LayerBodies,
          depends_on \in DepSets(ScriptLayers \cup UnknownNames) :
            /\ ("depends_on" \in attrs \/ depends_on = {})
            /\ RegisterLayer(clsname, attrs, depends_on)
    \/ \E attrs \in SUBSET ModeAttrs, nm \in ModeNames, dflt \in BOOLEAN :
            RegisterMode(attrs, nm, dflt)
    \/ \E attrs \in SUBSET PropAttrs, nm \in PropNames : RegisterProp(attrs, nm)

\* The steps of deploy() after its first.
RunSteps ==
    \/ ResolveStep
    \/ ResolveFail
    \/ ResolveReturn
    \/ SharedConfigStep
    \/ SharedConfigEnd
    \/ PropInitStep
    \/ PropInitEnd
    \/ PromptBegin
    \/ \E answers \in AnswerLists(choices) : PromptAnswer(answers)
    \/ DeployStep
    \/ LayerStatusUpdate
    \/ \E ret_code \in RetCodes : DeployReturn(ret_code)
    \/ \E returncode \in RetCodes : RunCmdExit(returncode)
    \/ DeployEnd

\* One invocation of deploy(), under either name.
Run ==
    \/ \E nm \in StackNames : DeployCall(nm)
    \/ RunSteps

Next == Register \/ Run

Spec == Init /\ [][Next]_vars

\* A layer object with every operation the orchestrator calls.
FullLayer(declares) ==
    {"deploy", "destroy", "shared_config", "prop_init"}
        \cup (IF declares THEN {"depends_on"} ELSE {})

\* The dependency graphs add_layer can build for the layers in keys, their
\* depends_on drawn from names.
Graphs(keys, names) == [keys -> DepSets(names) \cup {{None}}]

\* add_layer for every layer of graph g: the registered layer objects.
LayersOf(g) == [k \in DOMAIN g |-> FullLayer(g[k] # {None})]

\* The registered_modes dicts add_mode can build from Mode classes with these names.
ModeLists ==
    {ml \in UNION {[1..n -> [name : ModeNames, default : BOOLEAN]] :
                      n \in 0..Cardinality(ModeNames)} :
        \A a, b \in 1..Len(ml) : ml[a].name = ml[b].name => a = b}

\* add_mode for every mode of ml: stack_mode_status holds the declared defaults.
DefaultsOf(ml) == [m \in Range(ModeKeys(ml)) |-> (CHOOSE e \in Range(ml) : e.name = m).default]

\* The state after the stack script registered the layers of some graph.
InitResolve ==
    /\ FreshObject
    /\ files = [n \in StackNames |-> NoFile]
    /\ saved = [n \in StackNames |-> NoSave]
    /\ registered_modes = <<>>
    /\ stack_mode_status = EmptyDict
    /\ \E keys \in SUBSET GraphLayers : \E g \in Graphs(keys, GraphLayers \cup UnknownNames) :
          /\ layer_dependency_graph = g
          /\ registered_layers = LayersOf(g)

NextResolve == Run

SpecResolve == InitResolve /\ [][NextResolve]_vars

\* The stacks of specification SpecRerun: a graph of layers and a list of modes,
\* of at most MaxStack names together.
Stacks ==
    {st \in (UNION {Graphs(keys, ScriptLayers) : keys \in SUBSET ScriptLayers}) \X ModeLists :
        Cardinality(DOMAIN st[1]) + Len(st[2]) <= MaxStack}

\* The state after the stack script registered the classes of some stack.
InitRerun ==
    /\ FreshObject
    /\ files = [n \in StackNames |-> NoFile]
    /\ saved = [n \in StackNames |-> NoSave]
    /\ \E st \in Stacks :
          /\ layer_dependency_graph = st[1]
          /\ registered_layers = LayersOf(st[1])
          /\ registered_modes = st[2]
          /\ stack_mode_status = DefaultsOf(st[2])

\* The process is over: the files are all that is left of the run.
ProcessEnd ==
    /\ pc \in {"done", "exit"}
    /\ pc' = "ended"
    /\ layer_dependency_graph' = EmptyDict
    /\ registered_layers' = EmptyDict
    /\ registered_modes' = <<>>
    /\ stack_mode_status' = EmptyDict
    /\ stack_status' = EmptyDict
    /\ stack' = <<>>
    /\ stack_toggle_status' = EmptyDict
    /\ shared_config' = EmptyDict
    /\ name' = ""
    /\ d' = EmptyDict
    /\ r' = <<>>
    /\ order' = <<>>
    /\ choices' = <<>>
    /\ enabled' = <<>>
    /\ i' = 0
    /\ calls' = <<>>
    /\ rets' = EmptyDict
    /\ exit_code' = 0
    /\ error' = ""
    /\ exit_at' = ""
    /\ defined' = NoClass
    /\ UNCHANGED <<files, saved>>

\* A stack script is run in a new process, up to its call of deploy().
ProcessStart(g, ml) ==
    /\ pc = "ended"
    /\ pc' = "register"
    /\ layer_dependency_graph' = g
    /\ registered_layers' = LayersOf(g)
    /\ registered_modes' = ml
    /\ stack_mode_status' = DefaultsOf(ml)
    /\ UNCHANGED <<stack_status, stack, stack_toggle_status, shared_config, files, saved, name, defined,
                   d, r, order, choices, enabled, i, calls, rets, exit_code, error, exit_at>>

\* Every script of SpecRerun calls devstack.deploy() with the default name.
NextRerun ==
    \/ DeployCall(DefaultName)
    \/ RunSteps
    \/ ProcessEnd
    \/ \E st \in Stacks : ProcessStart(st[1], st[2])

SpecRerun == InitRerun /\ [][NextRerun]_vars

\* The stack script calls devstack.deploy() once more after it returned, on the
\* same DevStack object: deploy() up to the call of resolve(), as in DeployCall.
DeployAgain ==
    /\ pc = "done"
    /\ Len(stack) < MaxRows
    /\ name' = DefaultName
    /\ d' = WorkingGraph(layer_dependency_graph)
    /\ r' = <<>>
    /\ pc' = "resolve"
    /\ order' = <<>>
    /\ choices' = <<>>
    /\ enabled' = <<>>
    /\ i' = 0
    /\ calls' = <<>>
    /\ rets' = EmptyDict
    /\ UNCHANGED <<registered_layers, registered_modes, layer_dependency_graph,
                   stack_status, stack, stack_mode_status, stack_toggle_status,
                   shared_config, files, saved, defined, exit_code, error, exit_at>>

\* A script that calls deploy() again and again in one process.
NextAgain ==
    \/ DeployCall(DefaultName)
    \/ RunSteps
    \/ DeployAgain

SpecAgain == InitRerun /\ [][NextAgain]_vars

\* The interpreter goes on with the while loop of __order: an iteration that is
\* possible is eventually taken.
SpecTerminate ==
    /\ InitResolve
    /\ [][NextResolve]_vars
    /\ WF_vars(ResolveStep)
    /\ WF_vars(ResolveFail)
    /\ WF_vars(ResolveReturn)

(* ------------------------------ properties ---------------------------- *)

\* The places of deploy() after resolve() returned.
AfterResolve == {"shared_config", "prop_init", "prompt", "answer", "deploy", "deploying", "done"}

\* resolve() has returned in this run.
Returned == pc \in AfterResolve \/ (pc = "exit" /\ exit_at \in AfterResolve)

\* The names k depends on, directly or through other layers.
RECURSIVE Closure(_, _, _)
Closure(g, S, n) ==
    IF n = 0 THEN S
    ELSE Closure(g, S \cup UNION {g[k] : k \in S \cap DOMAIN g}, n - 1)

DependsOn(g, k) == Closure(g, g[k], Cardinality(DOMAIN g))

HasCycle(g) == \E k \in DOMAIN g : k \in DependsOn(g, k)

\* Every dependency is a registered layer or the sentinel.
WellFormed(g) == \A k \in DOMAIN g : g[k] \subseteq DOMAIN g \cup {None}

\* Some dependency is neither a registered layer nor the sentinel.
HasUnknown(g) == ~WellFormed(g)

ExampleGraph == [k \in {"A", "B", "C"} |->
                    CASE k = "A" -> {} [] k = "B" -> {"A"} [] k = "C" -> {"A", "B"}]

\* C1: for an acyclic graph whose dependencies are registered layers (or the
\* sentinel), resolve never fails, and the order it returns holds every layer
\* strictly after each of its dependencies; {A: [], B: [A], C: [A, B]} gives
\* exactly [A, B, C].
C1_DependenciesFirst ==
    LET g == layer_dependency_graph
    IN  (WellFormed(g) /\ ~HasCycle(g)) =>
            /\ ~(pc = "exit" /\ exit_at = "resolve")
            /\ Returned =>
                  \A k \in DOMAIN g : \E j \in 1..Len(order) :
                      /\ order[j] = k
                      /\ \A dep \in g[k] \ {None} : \E h \in 1..(j - 1) : order[h] = dep
            /\ (Returned /\ g = ExampleGraph) => order = <<"A", "B", "C">>

C1_Witness ==
    /\ Returned
    /\ layer_dependency_graph = ExampleGraph
    /\ order = <<"A", "B", "C">>

\* C2: for a graph with a cycle, resolve never returns: the process exits with a
\* non-zero code from the resolver, with no order, no stack status entry, no
\* table row, and no shared_config, prop_init or deploy of any layer invoked.
C2_CycleFailsWhole ==
    HasCycle(layer_dependency_graph) =>
        /\ ~Returned
        /\ pc = "resolve" => DOMAIN d # {}
        /\ pc = "exit" => (exit_at = "resolve" /\ exit_code # 0)
        /\ order = <<>>
        /\ stack_status = EmptyDict
        /\ stack = <<>>
        /\ calls = <<>>

\* A graph with a cycle and a resolvable layer outside it has failed.
C2_Witness ==
    /\ HasCycle(layer_dependency_graph)
    /\ pc = "exit"
    /\ exit_code = 1
    /\ r # <<>>

\* C3: with a dependency on a name that is no registered layer, resolve does not
\* return, so no such name reaches the later steps of the run.
C3_UnknownDependencyFails ==
    HasUnknown(layer_dependency_graph) =>
        /\ ~Returned
        /\ Range(order) \subseteq DOMAIN registered_layers

\* The places of deploy() after prompt_toggles returned.
AfterPrompt == {"deploy", "deploying", "done"}

\* prompt_toggles has returned in this run.
Prompted == pc \in AfterPrompt \/ (pc = "exit" /\ exit_at \in AfterPrompt)

IsDeployCall(c) == c[1] = "deploy"

\* The layers whose deploy() was invoked in this run, in the order of the calls.
Deployed ==
    LET dc == SelectSeq(calls, IsDeployCall) IN [j \in 1..Len(dc) |-> dc[j][2]]

InEnabled(layer) == layer \in Range(enabled)

\* The layers of the resolved order that are in the enabled set, in that order.
EnabledInOrder == SelectSeq(order, InEnabled)

\* A layer's deploy() has been called and has not returned.
InsideDeploy == pc = "deploying" \/ (pc = "exit" /\ exit_at = "deploying")

\* C4: the deploy() calls of a run are the enabled layers of the resolved order,
\* each once and in that order (at any moment a prefix of them, at the end all of
\* them), every call returns before the next is made, and after a deploy()
\* returned, negative or not, the orchestrator goes on: the process ends in the
\* deploy loop only inside a layer's deploy().
C4_DeployEnabledInOrder ==
    /\ Len(Deployed) <= Len(EnabledInOrder)
    /\ Deployed = SubSeq(EnabledInOrder, 1, Len(Deployed))
    /\ pc = "done" => Deployed = EnabledInOrder
    /\ IF InsideDeploy
       THEN /\ Deployed # <<>>
            /\ DOMAIN rets = Range(Deployed) \ {Deployed[Len(Deployed)]}
       ELSE DOMAIN rets = Range(Deployed)
    /\ (pc = "exit" /\ Deployed # <<>>) => exit_at = "deploying"

\* A run is over in which the first of two deployed layers returned a negative code.
C4_Witness ==
    /\ pc = "done"
    /\ Len(Deployed) = 2
    /\ rets[Deployed[1]] < 0

\* C5: the entry and the row of a layer whose deploy() returned show the tick and
\* "Layer is up" for 0, the cross and "Failed" for a negative code, the tick and
\* "Complete" for a positive one, and these three outcomes differ.
C5_StatusByReturnCode ==
    LET up == <<Center(TickSymbol, SymbolWidth), Center(UpStatus, StatusWidth)>>
        failed == <<Center(CrossSymbol, SymbolWidth), Center(FailedStatus, StatusWidth)>>
        complete == <<Center(TickSymbol, SymbolWidth), Center(CompleteStatus, StatusWidth)>>
    IN  /\ up # failed /\ up # complete /\ failed # complete
        /\ \A layer \in DOMAIN rets :
              LET shown == <<stack_status[layer]["symbol"], stack_status[layer]["status"]>>
              IN  /\ rets[layer] = 0 => shown = up
                  /\ rets[layer] < 0 => shown = failed
                  /\ rets[layer] > 0 => shown = complete
                  /\ \A j \in 1..Len(stack) :
                        stack[j][2] = layer => stack[j] = <<shown[1], layer, shown[2]>>

\* A run is over in which a layer returned 5 and is shown as complete.
C5_Witness ==
    /\ pc = "done"
    /\ \E layer \in DOMAIN rets :
          /\ rets[layer] = 5
          /\ stack_status[layer]["status"] = Center(CompleteStatus, StatusWidth)
          /\ \E j \in 1..Len(stack) : stack[j][2] = layer

\* C6: after the toggle selection every mode of the enabled set has status true,
\* and no mode name is a key of the toggle map or of the stack status.
C6_ModesNeverLayers ==
    Prompted =>
        \A m \in Range(ModeKeys(registered_modes)) :
            /\ m \in Range(enabled) => stack_mode_status[m]
            /\ m \notin DOMAIN stack_toggle_status
            /\ m \notin DOMAIN stack_status

JsonLiteral(b) == IF b THEN "true" ELSE "false"

\* The members of the JSON object that holds the dict m.
MembersOf(m) == {<<k, JsonLiteral(m[k])>> : k \in DOMAIN m}

\* C7: after the toggle selection the toggle of every layer of the resolved order
\* is true exactly if the layer is in the enabled set, and the file of the stack
\* holds exactly the toggle and mode maps that are in memory.
C7_TogglesFollowAnswer ==
    Prompted =>
        /\ \A layer \in Range(order) :
              /\ layer \in DOMAIN stack_toggle_status
              /\ stack_toggle_status[layer] = (layer \in Range(enabled))
        /\ files[name].exists
        /\ files[name].stack_toggle_status = MembersOf(stack_toggle_status)
        /\ files[name].stack_mode_status = MembersOf(stack_mode_status)

\* A layer that was presented checked, from the file of an earlier run, and left
\* unchecked by the operator has its toggle false.
C7_Witness ==
    /\ Prompted
    /\ \E j \in 1..Len(order) :
          /\ choices[j].name = order[j]
          /\ choices[j].checked
          /\ order[j] \notin Range(enabled)
          /\ ~stack_toggle_status[order[j]]

\* load_config has run in this process: the operator is being asked, or building
\* the lists failed.
Loaded == pc = "answer" \/ (pc = "exit" /\ exit_at = "prompt")

\* C8: without a file for the stack prompt_toggles raises nothing, and the
\* operator is presented the layers of the resolved order unchecked and then
\* the registered modes, each checked as its declared default says.
C8_DefaultsWithoutFile ==
    /\ (pc = "exit" /\ exit_at = "prompt") => files[name].exists
    /\ (pc = "answer" /\ ~files[name].exists) =>
          /\ Len(choices) = Len(order) + Len(registered_modes)
          /\ \A j \in 1..Len(order) :
                choices[j] = [name |-> order[j], checked |-> FALSE]
          /\ \A j \in 1..Len(registered_modes) :
                choices[Len(order) + j] =
                    [name |-> registered_modes[j].name,
                     checked |-> registered_modes[j].default]

\* The operator is asked, without a file, about a layer and a mode that is on by default.
C8_Witness ==
    /\ pc = "answer"
    /\ ~files[name].exists
    /\ order # <<>>
    /\ \E j \in 1..Len(registered_modes) :
          registered_modes[j].default /\ choices[Len(order) + j].checked

\* C9: once a file was saved under the stack name, load_config leaves in memory
\* exactly the toggle and mode maps that were saved, whatever was there before.
C9_LoadReturnsSaved ==
    (Loaded /\ files[name].exists) =>
        /\ stack_toggle_status = saved[name].stack_toggle_status
        /\ stack_mode_status = saved[name].stack_mode_status

\* A load brought back a true toggle and replaced the declared defaults of the modes.
C9_Witness ==
    /\ pc = "answer"
    /\ files[name].exists
    /\ \E k \in DOMAIN stack_toggle_status : stack_toggle_status[k]
    /\ stack_mode_status # DefaultsOf(registered_modes)

\* C10: a class statement whose body lacks a required operation of its kind ends
\* the process with exit code -2 and leaves the registry, the dependency graph,
\* the mode status map and the shared configuration as they were.
C10_IncapableNeverRegistered ==
    /\ [](defined.missing # {} => (pc = "exit" /\ exit_code = -2))
    /\ [][defined'.missing # {} =>
            UNCHANGED <<registered_layers, layer_dependency_graph, registered_modes,
                        stack_mode_status, shared_config>>]_vars

\* A Layer class without destroy, its name not registered, has ended the process.
C10_Witness ==
    /\ pc = "exit"
    /\ exit_code = -2
    /\ defined.kind = "Layer"
    /\ defined.missing = {"destroy"}
    /\ defined.name \notin DOMAIN registered_layers
    /\ defined.name \notin DOMAIN layer_dependency_graph
    /\ registered_modes # <<>>

\* The shared_config() calls of a run that went through the whole resolved order.
SharedConfigCalls == [j \in 1..Len(order) |-> <<"shared_config", order[j]>>]

\* C11: the shared_config() calls of a run are made in resolved order, and when a
\* prop_init() or a deploy() is invoked, shared_config() of every layer of the
\* resolved order has been invoked before and its result is in shared_config
\* under the layer's name.
C11_SharedConfigFirst ==
    /\ \A j \in 1..Len(calls) :
          calls[j][1] = "shared_config" => (j <= Len(order) /\ calls[j] = SharedConfigCalls[j])
    /\ \A j \in 1..Len(calls) :
          calls[j][1] \in {"prop_init", "deploy"} =>
              /\ j > Len(order)
              /\ SubSeq(calls, 1, Len(order)) = SharedConfigCalls
              /\ \A layer \in Range(order) :
                    /\ layer \in DOMAIN shared_config
                    /\ shared_config[layer] = "layer"

\* Two layers had shared_config() invoked, then prop_init(), and one is being deployed.
C11_Witness ==
    /\ Len(order) = 2
    /\ Len(calls) = 5
    /\ calls[3][1] = "prop_init"
    /\ calls[5][1] = "deploy"

\* C12: for a graph in which layer s is declared with the sentinel (no
\* depends_on), some list resolve() can return has s at position 0.
C12_SentinelCanBeFirst ==
    Returned =>
        \A s \in DOMAIN layer_dependency_graph :
            layer_dependency_graph[s] = {None} =>
                \E o \in ResolveOrders(layer_dependency_graph) : o[1] = s

\* The layer, symbol and status arguments update_stack_status is tried with:
\* the names that have an entry, a name that has none, and None for "not given".
StatusNames == DOMAIN stack_status \cup {"X"}
SymbolArgs == {None, TickSymbol}
StatusArgs == {None, LayerStatus}

\* From entries ss and rows st to ss2 and st2 only the symbol and status text of
\* layer changed: same rows in the same places under the same names, every
\* other entry and row as it was, and no row for a layer that had none.
OnlyTextChanged(ss, st, ss2, st2, layer) ==
    /\ DOMAIN ss2 = DOMAIN ss \cup {layer}
    /\ \A k \in DOMAIN ss \ {layer} : ss2[k] = ss[k]
    /\ IF layer \in DOMAIN ss
       THEN /\ DOMAIN ss[layer] \subseteq DOMAIN ss2[layer]
            /\ \A f \in DOMAIN ss[layer] \ {"symbol", "status"} : ss2[layer][f] = ss[layer][f]
       ELSE DOMAIN ss2[layer] \subseteq {"symbol", "status"}
    /\ Len(st2) = Len(st)
    /\ \A idx \in 1..Len(st) :
          /\ st2[idx][2] = st[idx][2]
          /\ Len(st2[idx]) = Len(st[idx])
          /\ st[idx][2] # layer => st2[idx] = st[idx]
          /\ st[idx][2] = layer =>
                /\ st2[idx][1] = ss2[layer]["symbol"]
                /\ st2[idx][3] = ss2[layer]["status"]

\* update_stack_status(layer, symbol, status), tried in the current state.
UpdateKeepsFrame(layer, symbol, status) ==
    \A ss2 \in {StatusAfter(stack_status, layer, symbol, status)} :
    \A st2 \in {StackAfter(stack, ss2, layer)} :
    \A ss3 \in {StatusAfter(ss2, layer, symbol, status)} :
        /\ OnlyTextChanged(stack_status, stack, ss2, st2, layer)
        /\ symbol # None => ss2[layer]["symbol"] = Center(symbol, SymbolWidth)
        /\ status # None => ss2[layer]["status"] = Center(status, StatusWidth)
        /\ ss3 = ss2
        /\ StackAfter(st2, ss3, layer) = st2

\* C13: update_stack_status(layer, symbol, status) changes the symbol and status
\* text of that layer and nothing else: the table keeps its rows, their order and
\* their names, other layers keep their rows and entries, a layer without a row
\* gets an entry and no row, and the same call once more changes nothing. This
\* holds for the call tried in every state, and for every step of the deploy
\* loop that writes the status of the layer at hand.
C13_UpdateOnlyText ==
    /\ [](\A layer \in StatusNames, symbol \in SymbolArgs, status \in StatusArgs :
            UpdateKeepsFrame(layer, symbol, status))
    /\ [][(pc \in {"deploy", "deploying"} /\ <<stack_status, stack>>' # <<stack_status, stack>>)
            => OnlyTextChanged(stack_status, stack, stack_status', stack', order[i])]_vars

\* The first of two displayed layers wrote its own status text from inside its
\* deploy(); the row of the second is as resolve created it.
C13_Witness ==
    /\ pc = "deploying"
    /\ i = 1
    /\ Len(stack) = 2
    /\ stack[1] = <<Center(ProgressSymbol, SymbolWidth), order[1], Center(LayerStatus, StatusWidth)>>
    /\ stack[2] = RowOf(PendingEntry(order[2]))

\* The three kinds of status an entry can show, told by its symbol.
IsPending(entry) == entry["symbol"] \in {PendingSymbol, Center(PendingSymbol, SymbolWidth)}
IsInProgress(entry) == entry["symbol"] = Center(ProgressSymbol, SymbolWidth)
IsTerminal(entry) ==
    entry["symbol"] \in {Center(TickSymbol, SymbolWidth), Center(CrossSymbol, SymbolWidth)}

\* C14: in a run every layer of the resolved order is pending, in progress or
\* terminal; a layer outside the enabled set is pending all along; a layer
\* becomes in progress only from pending and terminal only from in progress; a
\* terminal entry is not changed again; and when deploy() returns no layer is in
\* progress.
C14_StatusLifecycle ==
    /\ [](Returned =>
            \A layer \in Range(order) :
                /\ layer \in DOMAIN stack_status
                /\ IsPending(stack_status[layer]) \/ IsInProgress(stack_status[layer])
                      \/ IsTerminal(stack_status[layer])
                /\ layer \notin Range(enabled) => IsPending(stack_status[layer])
                /\ pc = "done" => ~IsInProgress(stack_status[layer]))
    /\ [][\A layer \in Range(order) \cap DOMAIN stack_status :
            /\ IsTerminal(stack_status[layer]) => stack_status'[layer] = stack_status[layer]
            /\ (IsTerminal(stack_status'[layer]) /\ ~IsTerminal(stack_status[layer]))
                  => IsInProgress(stack_status[layer])
            /\ (IsInProgress(stack_status'[layer]) /\ ~IsInProgress(stack_status[layer]))
                  => IsPending(stack_status[layer])]_vars

\* deploy() returned: one layer failed, another was not enabled and is as resolve left it.
C14_Witness ==
    /\ pc = "done"
    /\ \E a, b \in Range(order) :
          /\ stack_status[a]["symbol"] = Center(CrossSymbol, SymbolWidth)
          /\ b \notin Range(enabled)
          /\ stack_status[b] = PendingEntry(b)

\* C15: after the toggle selection every registered mode has status true exactly
\* if the operator left it checked, in memory and in the file of the stack,
\* whatever its declared default or persisted value was.
C15_ModesFollowAnswer ==
    Prompted =>
        \A m \in Range(ModeKeys(registered_modes)) :
            /\ m \in DOMAIN stack_mode_status
            /\ stack_mode_status[m] = (m \in Range(enabled))
            /\ <<m, JsonLiteral(m \in Range(enabled))>> \in files[name].stack_mode_status

\* The name column of the data rows of the table.
NameColumn == [j \in 1..Len(stack) |-> stack[j][2]]

\* C16: after resolve returned, in the first deploy() or in a later one on the
\* same object, the table has one data row per resolved name, in resolved order.
C16_RowsAreTheOrder == Returned => NameColumn = order

\* C17: when the choice lists are built, every layer of the resolved order has a
\* toggle and every registered mode a mode status, whatever file was loaded, and
\* the operator is asked: prompt_toggles does not end on a missing name.
C17_ChoicesAlwaysBuilt ==
    Loaded =>
        /\ Range(order) \subseteq DOMAIN stack_toggle_status
        /\ Range(ModeKeys(registered_modes)) \subseteq DOMAIN stack_mode_status
        /\ pc = "answer"

\* C18: the list resolve returns holds every key of the dependency graph, holds
\* no name twice, and does not hold the sentinel.
C18_OrderCoversGraphOnce ==
    Returned =>
        /\ DOMAIN layer_dependency_graph \subseteq Range(order)
        /\ \A a, b \in 1..Len(order) : order[a] = order[b] => a = b
        /\ None \notin Range(order)

\* resolve returned for three layers: one declared with the sentinel, one that
\* depends on it, and one that two layers depend on.
C18_Witness ==
    /\ Returned
    /\ Len(order) = 3
    /\ \E a, b, c \in DOMAIN layer_dependency_graph :
          /\ layer_dependency_graph[a] = {None}
          /\ layer_dependency_graph[b] = {a, c}
          /\ layer_dependency_graph[c] = {}

\* C19: a run never invokes on a registered layer an operation its class does
\* not define: no AttributeError ends the loops of deploy(), and every operation
\* invoked is one of the layer.
C19_AcceptedLayersSupportRun ==
    /\ ~(pc = "exit" /\ error = "AttributeError"
            /\ exit_at \in {"shared_config", "prop_init", "deploy", "deploying"})
    /\ \A j \in 1..Len(calls) : calls[j][1] \in registered_layers[calls[j][2]]

\* The keys of the working graph and the dependency entries under them.
GraphSize(g) == Cardinality(DOMAIN g) + Cardinality(UNION {{<<k, v>> : v \in g[k]} : k \in DOMAIN g})

\* C20: the while loop of __order is always left, by the return or by
\* sys.exit(1), and every iteration that stays in the loop leaves a working
\* graph with fewer keys and dependency entries than it found.
C20_ResolveTerminates ==
    /\ (pc = "resolve") ~> (pc # "resolve")
    /\ [][(pc = "resolve" /\ pc' = "resolve") => GraphSize(d') < GraphSize(d)]_vars

\* The loop was left by the return after four iterations: the sentinel, then a
\* chain of three layers.
C20_Witness ==
    /\ pc = "shared_config"
    /\ i = 1
    /\ \E a, b, c \in DOMAIN layer_dependency_graph :
          /\ layer_dependency_graph[a] = {None}
          /\ layer_dependency_graph[b] = {a}
          /\ layer_dependency_graph[c] = {b}
          /\ order = <<a, b, c>>

====
